---- MODULE Spec2Model ----
(***************************************************************************)
(* Model of scripts/data_processor.py: the two batch orchestrators         *)
(* get_journal_publication_bioc and get_rxiv_bioc, the service clients     *)
(* they call, and the call budget put on the clients by the decorators     *)
(* @sleep_and_retry @limits(calls, period).                                *)
(*                                                                         *)
(* Python values are modelled as records [t, s]: None, or a str whose      *)
(* characters are the tokens of s.  External services answer with          *)
(* responses drawn from small sets; a transport error is the response      *)
(* with status 0.                                                          *)
(***************************************************************************)
EXTENDS Integers, Sequences, FiniteSets, TLC

VARIABLES
    fn,          \* which orchestrator was called: "journal" or "rxiv"
    isPmidDict,  \* argument isPmidDict of get_journal_publication_bioc
    order,       \* iteration order of the argument dict (its insertion order)
    idx,         \* number of keys the for loop has taken so far
    pc,          \* position in the orchestrator
    dict,        \* the argument dict, mutated in place; returned first
    unk_dict,    \* the local unk_dict; returned second
    key,         \* loop variable
    bioc,        \* local bioc
    converted,   \* local converted (get_rxiv_bioc)
    biorxiv,     \* local biorxiv (get_rxiv_bioc)
    details,     \* local details (get_rxiv_bioc)
    calls,       \* the calls the orchestrator made for the current key
    oracle,      \* per key, what each service is told to answer; << >>: anything
    run,         \* 1: first call; 2: the call repeated on the same batch
    first,       \* how the first call ended and what it left
    now,         \* the clock the call budgets read, in ticks
    last_reset,  \* per decorated function: start of its current period
    num_calls,   \* per decorated function: attempts counted in the period
    stack,       \* the calls of decorated functions in progress, innermost last
    sent,        \* per decorated function: when its body was run, over the last second
    started,     \* number of calls the caller has made
    escaped,     \* a RateLimitException reached the caller
    file_name    \* the file names derived so far, latest last

----------------------------------------------------------------------------
(* Bounds *)

NumKeys == 2

\* clock ticks in one second
TicksPerSecond == 2

\* time passes on its own up to this tick (a sleep may go beyond it)
MaxTime == 1

\* the number of calls of decorated functions the caller makes
MaxCalls == 4

\* the number of tokens in a DOI's suffix, at most
MaxSuffixLen == 2

----------------------------------------------------------------------------
(* Python values *)

None == [t |-> "None", s |-> <<>>]
Str(s) == [t |-> "str", s |-> s]

\* truth value of a str-or-None, as in `if bioc` and `if details`
Truthy(v) == v # None /\ v.s # <<>>

EmptyColl == Str(<<"[]">>)
Blank == Str(<<>>)
Converting == Str(<<"converting">>)

\* s.split(tok)[-1]: what follows the last tok, or all of s without one
AfterLast(s, tok) ==
    IF \E i \in 1..Len(s) : s[i] = tok
    THEN LET i == CHOOSE j \in 1..Len(s) :
                    s[j] = tok /\ \A m \in (j+1)..Len(s) : s[m] # tok
         IN SubSeq(s, i + 1, Len(s))
    ELSE s

\* the outcome of a call: it raised, or it returned val
Raise == [raised |-> TRUE, val |-> None]
Ret(v) == [raised |-> FALSE, val |-> v]

----------------------------------------------------------------------------
(* Identifiers: the keys of a batch, as token sequences *)

AllKeys ==
    << <<"https://", "doi.org/", "10.1101", "/", "a">>,
       <<"10.1101", "/", "b">>,
       <<"https://", "doi.org/", "10.1", "/", "c">> >>

Keys == {AllKeys[i] : i \in 1..NumKeys}

\* the sequences that list every element of S exactly once
Perms(S) ==
    {q \in [1..Cardinality(S) -> S] : \A i, j \in 1..Cardinality(S) : q[i] = q[j] => i = j}

\* the keys listed from the r-th on, around
Rotation(r) == [i \in 1..NumKeys |-> AllKeys[((r + i - 2) % NumKeys) + 1]]

\* the batches: the empty one, and all the keys, with any of them first
Orders == {<< >>} \cup {Rotation(r) : r \in 1..NumKeys}

----------------------------------------------------------------------------
(* Responses of the external services.  Every response carries its kind, *)
(* by which a fixed service (an oracle) is told what to answer.            *)

\* what the annotation endpoint stores for a PMID
DocOf(pmid) == <<"[{">> \o pmid.s \o <<"}]">>

\* annotation endpoint: non-success status or transport error, empty
\* collection, empty body, annotation document
AnnResponses(pmid) ==
    { [kind |-> "err", status |-> 500, content |-> <<>>],
      [kind |-> "empty", status |-> 200, content |-> <<"[]">>],
      [kind |-> "blank", status |-> 200, content |-> <<>>],
      [kind |-> "doc", status |-> 200, content |-> DocOf(pmid)] }

\* ID-conversion endpoint: transport error (status 0), XML without a record,
\* a record without a pmid attribute, a record with one
ConvResponses(doi) ==
    { [kind |-> "err", status |-> 0, record |-> FALSE, pmid |-> None],
      [kind |-> "norecord", status |-> 200, record |-> FALSE, pmid |-> None],
      [kind |-> "nopmid", status |-> 200, record |-> TRUE, pmid |-> None],
      [kind |-> "pmid", status |-> 200, record |-> TRUE,
       pmid |-> Str(<<"pmid-idconv:">> \o doi.s)] }

\* title-search endpoint: transport error, empty idlist, one hit
SearchResponses(tag, k) ==
    { [kind |-> "err", status |-> 0, idlist |-> <<>>],
      [kind |-> "nohit", status |-> 200, idlist |-> <<>>],
      [kind |-> "hit", status |-> 200, idlist |-> <<Str(<<"pmid-title:", tag>> \o k)>>] }

\* bodies of the preprint details endpoint for the preprint k: not JSON
\* (empty, or an error page), or JSON with its messages and collection lists
\* (a missing key is the empty list: either way indexing [0] raises); server
\* is the API that served the body, known once the request is made; doi is
\* the preprint's DOI as the API holds it, without resolver host
JsonBody(kind, k, m, c) ==
    [kind |-> kind, text |-> "json", doi |-> AfterLast(k, "doi.org/"), messages |-> m,
     collection |-> c, server |-> "-"]

JsonBodies(k) ==
    { JsonBody("ok-nocollection", k, <<"ok">>, <<>>),
      JsonBody("ok-unpublished", k, <<"ok">>, <<{"title", "jatsxml"}>>),
      JsonBody("ok-published", k, <<"ok">>, <<{"title", "jatsxml", "published"}>>),
      JsonBody("ok-nojats", k, <<"ok">>, <<{"title", "published"}>>),
      JsonBody("ok-notitle", k, <<"ok">>, <<{"jatsxml"}>>),
      JsonBody("notfound", k, <<"no posts found">>, <<>>),
      JsonBody("nomessages", k, <<>>, <<>>) }

NoBody(kind, k) ==
    [kind |-> kind, text |-> "", doi |-> AfterLast(k, "doi.org/"), messages |-> <<>>,
     collection |-> <<>>, server |-> "-"]

DetailBodies(k) ==
    JsonBodies(k) \cup
    { NoBody("nobody", k),
      [kind |-> "html", text |-> "html", doi |-> AfterLast(k, "doi.org/"),
       messages |-> <<>>, collection |-> <<>>, server |-> "-"] }

DetailResponses(k) ==
    { [kind |-> "err", status |-> 404, body |-> NoBody("err", k)] }
    \cup { [kind |-> b.kind, status |-> 200, body |-> b] : b \in DetailBodies(k) }

\* the alternate tool metapub.convert.doi2pmid: raises, or returns a PMID
AltResponses(k) ==
    { [kind |-> "err", out |-> Raise],
      [kind |-> "pmid", out |-> Ret(Str(<<"pmid-metapub:">> \o k))] }

\* the raw-source download: transport error, text that is not XML, JATS XML
JatsResponses ==
    { [kind |-> "err", status |-> 0, xml |-> FALSE],
      [kind |-> "notxml", status |-> 200, xml |-> FALSE],
      [kind |-> "xml", status |-> 200, xml |-> TRUE] }

\* the conversion's surroundings: style sheet and output directory present
EnvResponses ==
    { [kind |-> "err", ok |-> FALSE], [kind |-> "ok", ok |-> TRUE] }

----------------------------------------------------------------------------
(* Service clients *)

\* json.loads(details): details is None, or text that is not JSON -> raises
Loads(d) == IF d = None \/ d.text # "json" THEN Raise ELSE Ret(d)

\* get_pubtator_bioc_json without its lines 49-50
get_pubtator_bioc_json_keeps_empty(id, resp) ==
    IF resp.status # 200 THEN Raise ELSE Ret(Str(resp.content))

get_pubtator_bioc_json(id, resp) ==
    IF resp.status # 200 THEN Raise
    ELSE IF resp.content = <<"[]">> THEN Ret(None)
    ELSE Ret(Str(resp.content))

\* doi.split('doi.org/')[-1] if 'doi.org/' in doi else doi
DoiPart(doi) == AfterLast(doi.s, "doi.org/")

get_pmid(doi, resp) ==
    IF doi = None THEN Raise                          \* 'doi.org/' in None
    ELSE IF resp.status # 200 THEN Raise              \* requests.get failed
    ELSE IF ~resp.record THEN Raise                   \* soup.find('record') is None
    ELSE IF resp.pmid = None THEN Raise               \* no pmid attribute
    ELSE Ret(resp.pmid)

\* get_rxiv_details asking api.biorxiv.org whatever is_biorxiv says
get_rxiv_details_biorxiv_only(doi, is_biorxiv, resp) ==
    IF resp.status # 200 THEN Raise
    ELSE Ret([resp.body EXCEPT !.server = "biorxiv"])

\* lines 96-107: the request goes to api.biorxiv.org or api.medrxiv.org
get_rxiv_details(doi, is_biorxiv, resp) ==
    IF resp.status # 200 THEN Raise
    ELSE Ret([resp.body EXCEPT !.server = IF is_biorxiv THEN "biorxiv" ELSE "medrxiv"])

get_rxiv_pmid(doi, is_biorxiv, dresp, sresp) ==
    LET d == get_rxiv_details(doi, is_biorxiv, dresp) IN
    IF d.raised THEN Raise
    ELSE IF Loads(d.val).raised THEN Raise
    ELSE IF d.val.collection = <<>> THEN Raise
    ELSE IF "title" \notin d.val.collection[1] THEN Raise
    ELSE IF sresp.status # 200 THEN Raise
    ELSE IF sresp.idlist = <<>> THEN Raise
    ELSE Ret(sresp.idlist[1])

\* get_rxiv_published_doi indexing ['published'] without the membership test
get_rxiv_published_doi_indexing(d) ==
    IF Loads(d).raised THEN Raise
    ELSE IF d.collection = <<>> THEN Raise
    ELSE IF "published" \in d.collection[1]
         THEN Ret(Str(<<"https://", "doi.org/", "published:">> \o d.doi))
         ELSE Raise

\* get_rxiv_published_doi reading the preprint's own 'doi' field
get_rxiv_published_doi_own(d) ==
    IF Loads(d).raised THEN Raise
    ELSE IF d.collection = <<>> THEN Raise
    ELSE Ret(Str(d.doi))

get_rxiv_published_doi(d) ==
    IF Loads(d).raised THEN Raise
    ELSE IF d.collection = <<>> THEN Raise
    ELSE IF "published" \in d.collection[1]
         THEN Ret(Str(<<"https://", "doi.org/", "published:">> \o d.doi))
         ELSE Ret(None)

get_rxiv_jats_xml(d, resp) ==
    IF Loads(d).raised THEN Raise
    ELSE IF d.collection = <<>> THEN Raise
    ELSE IF "jatsxml" \notin d.collection[1] THEN Raise
    ELSE IF resp.status = 0 THEN Raise
    ELSE Ret(Str(IF resp.xml THEN <<"<article/>">> ELSE <<"<html>">>))

\* ET.fromstring raises on text that is not XML; the transform or the write
\* can fail on its own (style sheet or output directory missing)
convert_jatsxml_to_html(input_file, style_and_output_ok) ==
    IF input_file.s # <<"<article/>">> THEN Raise
    ELSE IF ~style_and_output_ok THEN Raise
    ELSE Ret(None)

\* re.search(doi_pattern, key), doi_pattern = r'https:\/\/doi\.org\/[\w/.-]+':
\* somewhere in key, https://doi.org/ and then a character of [\w/.-]
InClass(tok) == tok \notin {"(", ")"}

HasDoiLink(s) ==
    \E i \in 1..(Len(s) - 2) :
        s[i] = "https://" /\ s[i + 1] = "doi.org/" /\ InClass(s[i + 2])

\* tok.replace("/", "_")
Underscored(tok) ==
    CASE tok = "/" -> "_"
      [] tok = "https://" -> "https:__"
      [] tok = "doi.org/" -> "doi.org_"
      [] OTHER -> tok

\* get_doi_file_name with line 444 (replace "." by "-") in force
get_doi_file_name_dashed(k) ==
    LET name == IF HasDoiLink(k) THEN AfterLast(k, "doi.org/") ELSE k
    IN [i \in 1..Len(name) |-> IF name[i] = "." THEN "-" ELSE Underscored(name[i])]

\* lines 426-449, on the tokens of key
get_doi_file_name(k) ==
    LET name == IF HasDoiLink(k) THEN AfterLast(k, "doi.org/") ELSE k
    IN [i \in 1..Len(name) |-> Underscored(name[i])]

----------------------------------------------------------------------------
(* The call budgets: @sleep_and_retry @limits(calls=..., period=1) of the   *)
(* ratelimit package on lines 29-30, 56-57, 81-82, 111-112, 451-452, 466-467. *)
(* Each @limits is a counter of its own: it counts the attempts since       *)
(* last_reset, starts a new period when the running one is over, and raises *)
(* RateLimitException (with the time left in the period) on an attempt      *)
(* beyond `calls`; sleep_and_retry sleeps that long and calls again.        *)

Limited ==
    {"get_pubtator_bioc_json", "get_pmid", "get_rxiv_details", "get_rxiv_pmid", "get_doi",
     "fetcher"}

\* calls= of each @limits
LimitCalls(f) == IF f = "get_rxiv_details" THEN 1 ELSE 3

\* period= of each @limits, in seconds
LimitPeriod == 1

Period == LimitPeriod * TicksPerSecond

\* the decorators are applied when the module is imported; last_reset is the
\* clock at that time
Imported ==
    /\ now = 0
    /\ last_reset = [f \in Limited |-> 0]
    /\ num_calls = [f \in Limited |-> 0]
    /\ stack = << >>
    /\ sent = [f \in Limited |-> << >>]
    /\ started = 0
    /\ escaped = FALSE

----------------------------------------------------------------------------
(* The orchestrators' locals and call trace *)

limiter == <<now, last_reset, num_calls, stack, sent, started, escaped>>

vars == <<fn, isPmidDict, order, idx, pc, dict, unk_dict, key,
          bioc, converted, biorxiv, details, calls, oracle, run, first, limiter,
          file_name>>

\* what no step of an orchestrator changes
args == <<fn, isPmidDict, order, oracle, run, first, limiter, file_name>>
locals == <<bioc, converted, biorxiv, details>>

\* how a call ended, as the trace keeps it: it raised, it returned a str or
\* None (kept), or it returned something else
Outcome(r) ==
    IF r.raised THEN "raise"
    ELSE IF r.val = None THEN "None"
    ELSE IF "t" \in DOMAIN r.val THEN (IF r.val.s = << >> THEN "blank" ELSE "str")
    ELSE "ret"

\* what the request of the call f(a) is built from: get_pmid (lines 69-72)
\* and get_rxiv_details (lines 94-99, also under get_rxiv_pmid, line 124) put
\* doi_part in the URL; every other callee is handed a as it is
Request(f, a) ==
    IF f \in {"get_pmid", "get_rxiv_details", "get_rxiv_pmid"} THEN DoiPart(a) ELSE a.s

\* one call made by the orchestrator: the function, its argument, what its
\* request is built from, the is_biorxiv flag ("bio", "med" or "-") or, for
\* an annotation fetch, the kind of the endpoint's response, and how the
\* call ended
Call(f, a, flag, r) ==
    [fn |-> f, arg |-> a, req |-> Request(f, a), flag |-> flag, out |-> Outcome(r)]

\* d with the entries of the keys in S removed (dict.pop for each)
Without(d, S) == [k \in (DOMAIN d) \ S |-> d[k]]

\* a new dict holding k alone
Store_fresh(d, k, v) == [j \in {k} |-> v]

\* d[k] = v
Store(d, k, v) == [j \in (DOMAIN d) \cup {k} |-> IF j = k THEN v ELSE d[j]]

\* the responses of S that the service at this call site may give for the
\* current key
Told(site, S) ==
    IF key \in DOMAIN oracle THEN {r \in S : r.kind = oracle[key][site]} ELSE S

\* the state in which an orchestrator starts on the batch whose keys are
\* listed in o: every slot None (see the docstrings, lines 212 and 265)
Start(o) ==
    /\ order = o
    /\ idx = 0
    /\ pc = "loop"
    /\ dict = [k \in {o[i] : i \in 1..Len(o)} |-> None]
    /\ unk_dict = << >>
    /\ key = << >>
    /\ bioc = None
    /\ converted = FALSE
    /\ biorxiv = TRUE
    /\ details = None
    /\ calls = << >>

NoResult == [end |-> "none", dict |-> << >>, unk_dict |-> << >>, oracle |-> << >>]

Init ==
    /\ fn \in {"journal", "rxiv"}
    /\ isPmidDict \in BOOLEAN
    /\ (fn = "rxiv" => isPmidDict = FALSE)
    /\ \E o \in Orders : Start(o)
    /\ oracle = << >>
    /\ run = 1
    /\ first = NoResult
    /\ Imported
    /\ file_name = << >>

\* `for key in dict:` takes the next key; the loop body starts by resetting
\* its locals (lines 221-223 and 273-276)
ForNext ==
    /\ pc = "loop"
    /\ idx < Len(order)
    /\ idx' = idx + 1
    /\ key' = order[idx + 1]
    /\ bioc' = None
    /\ converted' = FALSE
    /\ biorxiv' = TRUE
    /\ details' = None
    /\ calls' = << >>
    /\ pc' = IF fn = "journal" THEN "j_primary" ELSE "r_s1"
    /\ UNCHANGED <<args, dict, unk_dict>>

\* the for loop is exhausted
ForEnd ==
    /\ pc = "loop"
    /\ idx = Len(order)
    /\ pc' = "pop"
    /\ UNCHANGED <<args, idx, dict, unk_dict, key, locals, calls>>

\* the final loop left out
PopUnresolved_skipped(d, u) == d

\* `for key in unk_dict: dict.pop(key, None)` and the return
PopUnresolved(d, u) == Without(d, DOMAIN u)

PopAndReturn ==
    /\ pc = "pop"
    /\ dict' = PopUnresolved(dict, unk_dict)
    /\ pc' = "returned"
    /\ UNCHANGED <<args, idx, unk_dict, key, locals, calls>>

----------------------------------------------------------------------------
(* get_journal_publication_bioc, lines 219-257 *)

\* bioc = get_pubtator_bioc_json(pmid); if bioc == '[]': bioc = None
\* inside try, with `except: bioc = None`
JournalFetch(pmid, resp) ==
    LET b == get_pubtator_bioc_json(pmid, resp) IN
    IF b.raised THEN None
    ELSE IF b.val = EmptyColl THEN None
    ELSE b.val

\* lines 225-234
JournalPrimary ==
    /\ pc = "j_primary"
    /\ \E cr \in Told("j1.conv", ConvResponses(Str(key))) :
         LET pm == IF isPmidDict THEN Ret(Str(key)) ELSE get_pmid(Str(key), cr)
             c1 == IF isPmidDict THEN << >>
                   ELSE <<Call("get_pmid", Str(key), "-", pm)>>
         IN IF pm.raised
            THEN /\ bioc' = None
                 /\ calls' = calls \o c1
            ELSE \E ar \in Told("j1.ann", AnnResponses(pm.val)) :
                   /\ bioc' = JournalFetch(pm.val, ar)
                   /\ calls' = calls \o c1 \o
                        <<Call("get_pubtator_bioc_json", pm.val, ar.kind,
                               get_pubtator_bioc_json(pm.val, ar))>>
    /\ pc' = "j_alt"
    /\ UNCHANGED <<args, idx, dict, unk_dict, key, converted, biorxiv, details>>

\* lines 236-245
JournalAlternate ==
    /\ pc = "j_alt"
    /\ IF bioc = None
       THEN \E alt \in Told("j2.alt", AltResponses(key)) :
              LET pm == alt.out IN
              IF pm.raised
              THEN /\ bioc' = None
                   /\ calls' = calls \o <<Call("doi2pmid", Str(key), "-", pm)>>
              ELSE \E ar \in Told("j2.ann", AnnResponses(pm.val)) :
                     /\ bioc' = JournalFetch(pm.val, ar)
                     /\ calls' = calls \o
                          <<Call("doi2pmid", Str(key), "-", pm),
                            Call("get_pubtator_bioc_json", pm.val, ar.kind,
                                 get_pubtator_bioc_json(pm.val, ar))>>
       ELSE UNCHANGED <<bioc, calls>>
    /\ pc' = "j_fin"
    /\ UNCHANGED <<args, idx, dict, unk_dict, key, converted, biorxiv, details>>

\* lines 247-252 and 386-391: the key goes to unk_dict, or its slot is filled
IsUnknown(b) == b = None \/ b = EmptyColl

\* Finish with the key popped from dict as soon as it is put in unk_dict
Finish_pops ==
    /\ pc \in {"j_fin", "r_fin"}
    /\ IF IsUnknown(bioc)
       THEN /\ unk_dict' = Store(unk_dict, key, None)
            /\ dict' = Without(dict, {key})
       ELSE /\ dict' = Store(dict, key, bioc)
            /\ UNCHANGED unk_dict
    /\ pc' = "loop"
    /\ UNCHANGED <<args, idx, key, locals, calls>>

Finish ==
    /\ pc \in {"j_fin", "r_fin"}
    /\ IF IsUnknown(bioc)
       THEN /\ unk_dict' = Store(unk_dict, key, None)
            /\ UNCHANGED dict
       ELSE /\ dict' = Store(dict, key, bioc)
            /\ UNCHANGED unk_dict
    /\ pc' = "loop"
    /\ UNCHANGED <<args, idx, key, locals, calls>>

----------------------------------------------------------------------------
(* get_rxiv_bioc, lines 271-397 *)

\* RxivFetch without `converted = True`
RxivFetch_unflagged(pmid, resp, b, c) ==
    LET t == get_pubtator_bioc_json(pmid, resp) IN
    IF t.raised THEN [bioc |-> b, converted |-> FALSE]
    ELSE IF t.val # EmptyColl /\ t.val # None
         THEN [bioc |-> t.val, converted |-> c]
         ELSE [bioc |-> b, converted |-> c]

\* bioc_temp = get_pubtator_bioc_json(pmid)
\* if bioc_temp != '[]' and bioc_temp is not None: bioc = bioc_temp; converted = True
\* inside try, with `except: converted = False`
RxivFetch(pmid, resp, b, c) ==
    LET t == get_pubtator_bioc_json(pmid, resp) IN
    IF t.raised THEN [bioc |-> b, converted |-> FALSE]
    ELSE IF t.val # EmptyColl /\ t.val # None
         THEN [bioc |-> t.val, converted |-> TRUE]
         ELSE [bioc |-> b, converted |-> c]

\* the rest of a try block once the PMID resolution ended as pm, having made
\* the calls c1
TryFetch(site, pm, c1) ==
    IF pm.raised
    THEN /\ converted' = FALSE
         /\ calls' = calls \o c1
         /\ UNCHANGED bioc
    ELSE \E ar \in Told(site, AnnResponses(pm.val)) :
           LET r == RxivFetch(pm.val, ar, bioc, converted) IN
           /\ bioc' = r.bioc
           /\ converted' = r.converted
           /\ calls' = calls \o c1 \o
                <<Call("get_pubtator_bioc_json", pm.val, ar.kind,
                       get_pubtator_bioc_json(pm.val, ar))>>

\* lines 278-290: PMID as bioRxiv
RxivBiorxivPmid ==
    /\ pc = "r_s1"
    /\ \E dr \in Told("s1.details", DetailResponses(key)),
            sr \in Told("s1.search", SearchResponses("bio", key)) :
         LET pm == get_rxiv_pmid(Str(key), TRUE, dr, sr) IN
         TryFetch("s1.ann", pm, <<Call("get_rxiv_pmid", Str(key), "bio", pm)>>)
    /\ pc' = "r_s2"
    /\ UNCHANGED <<args, idx, dict, unk_dict, key, biorxiv, details>>

\* lines 292-305: PMID as medRxiv
RxivMedrxivPmid ==
    /\ pc = "r_s2"
    /\ IF converted = FALSE
       THEN \E dr \in Told("s2.details", DetailResponses(key)),
                 sr \in Told("s2.search", SearchResponses("med", key)) :
              LET pm == get_rxiv_pmid(Str(key), FALSE, dr, sr) IN
              TryFetch("s2.ann", pm, <<Call("get_rxiv_pmid", Str(key), "med", pm)>>)
       ELSE UNCHANGED <<bioc, converted, calls>>
    /\ pc' = "r_s3"
    /\ UNCHANGED <<args, idx, dict, unk_dict, key, biorxiv, details>>

\* lines 307-320: PMID of the key from the ID converter
RxivGenericPmid ==
    /\ pc = "r_s3"
    /\ IF converted = FALSE
       THEN \E cr \in Told("s3.conv", ConvResponses(Str(key))) :
              LET pm == get_pmid(Str(key), cr) IN
              TryFetch("s3.ann", pm, <<Call("get_pmid", Str(key), "-", pm)>>)
       ELSE UNCHANGED <<bioc, converted, calls>>
    /\ pc' = "r_chk"
    /\ UNCHANGED <<args, idx, dict, unk_dict, key, biorxiv, details>>

\* lines 322-326: `if bioc and bioc != "[]": dict[key] = bioc; continue`
RxivSuccessCheck ==
    /\ pc = "r_chk"
    /\ IF Truthy(bioc) /\ bioc # EmptyColl
       THEN /\ dict' = Store(dict, key, bioc)
            /\ pc' = "loop"
       ELSE /\ pc' = "r_det_bio"
            /\ UNCHANGED dict
    /\ UNCHANGED <<args, idx, unk_dict, key, locals, calls>>

\* lines 328-335: details as bioRxiv
RxivDetailsBio ==
    /\ pc = "r_det_bio"
    /\ \E dr \in Told("s4.bio", DetailResponses(key)) :
         LET d == get_rxiv_details(Str(key), TRUE, dr) IN
         /\ calls' = calls \o <<Call("get_rxiv_details", Str(key), "bio", d)>>
         /\ IF d.raised
            THEN /\ biorxiv' = FALSE
                 /\ converted' = FALSE
                 /\ UNCHANGED details
            ELSE /\ details' = d.val
                 /\ UNCHANGED <<biorxiv, converted>>
    /\ pc' = "r_status"
    /\ UNCHANGED <<args, idx, dict, unk_dict, key, bioc>>

\* `if details`: details is a non-empty str
HasText(d) == d # None /\ d.text # ""

\* lines 337-342, outside any try: json.loads(details) and
\* status['messages'][0]['status'] raise out of get_rxiv_bioc
RxivStatusCheck ==
    /\ pc = "r_status"
    /\ IF HasText(details)
       THEN IF Loads(details).raised \/ details.messages = << >>
            THEN /\ pc' = "raised"
                 /\ UNCHANGED biorxiv
            ELSE /\ biorxiv' = IF details.messages[1] # "ok" THEN FALSE ELSE biorxiv
                 /\ pc' = "r_det_med"
       ELSE /\ pc' = "r_det_med"
            /\ UNCHANGED biorxiv
    /\ UNCHANGED <<args, idx, dict, unk_dict, key, bioc, converted, details, calls>>

\* lines 344-350: details as medRxiv; `continue` when the fetch fails
RxivDetailsMed ==
    /\ pc = "r_det_med"
    /\ IF biorxiv = FALSE
       THEN \E dr \in Told("s4.med", DetailResponses(key)) :
              LET d == get_rxiv_details(Str(key), FALSE, dr) IN
              /\ calls' = calls \o <<Call("get_rxiv_details", Str(key), "med", d)>>
              /\ IF d.raised
                 THEN /\ pc' = "loop"
                      /\ UNCHANGED details
                 ELSE /\ details' = d.val
                      /\ pc' = "r_s5"
       ELSE /\ pc' = "r_s5"
            /\ UNCHANGED <<details, calls>>
    /\ UNCHANGED <<args, idx, dict, unk_dict, key, bioc, converted, biorxiv>>

\* lines 352-366: PMID of the published DOI
RxivPublishedDoiPmid ==
    /\ pc = "r_s5"
    /\ IF converted = FALSE
       THEN LET doi == get_rxiv_published_doi(details)
                c1 == <<Call("get_rxiv_published_doi", Str(key), "-", doi)>>
            IN IF doi.raised
               THEN TryFetch("s5.ann", Raise, c1)
               ELSE \E cr \in Told("s5.conv", ConvResponses(doi.val)) :
                      LET pm == get_pmid(doi.val, cr) IN
                      TryFetch("s5.ann", pm, c1 \o <<Call("get_pmid", doi.val, "-", pm)>>)
       ELSE UNCHANGED <<bioc, converted, calls>>
    /\ pc' = "r_s6"
    /\ UNCHANGED <<args, idx, dict, unk_dict, key, biorxiv, details>>

\* the try block of lines 370-383 storing the JATS XML it fetched
FallbackResult_payload(x, h) ==
    IF x.raised \/ h.raised THEN None ELSE x.val

\* what the try block of lines 370-383 leaves in bioc, get_rxiv_jats_xml
\* having ended as x and convert_jatsxml_to_html as h: `bioc = "converting"`,
\* or `except: bioc = None`
FallbackResult(x, h) ==
    IF x.raised \/ h.raised THEN None ELSE Converting

\* lines 368-384: JATS XML to HTML; bioc = "converting", or None on any failure
RxivJatsFallback ==
    /\ pc = "r_s6"
    /\ IF converted = FALSE \/ bioc = EmptyColl
       THEN \E jr \in Told("s6.jats", JatsResponses),
                 env \in Told("s6.env", EnvResponses) :
              LET x == get_rxiv_jats_xml(details, jr)
                  c1 == <<Call("get_rxiv_jats_xml", Str(key), "-", x)>>
              IN IF x.raised
                 THEN /\ bioc' = FallbackResult(x, Raise)
                      /\ calls' = calls \o c1
                 ELSE LET h == convert_jatsxml_to_html(x.val, env.ok) IN
                      /\ bioc' = FallbackResult(x, h)
                      /\ calls' = calls \o c1 \o
                           <<Call("convert_jatsxml_to_html", x.val, "-", h)>>
       ELSE UNCHANGED <<bioc, calls>>
    /\ pc' = "r_fin"
    /\ UNCHANGED <<args, idx, dict, unk_dict, key, converted, biorxiv, details>>

----------------------------------------------------------------------------
(* The batch call *)

Next ==
    \/ ForNext
    \/ ForEnd
    \/ PopAndReturn
    \/ JournalPrimary
    \/ JournalAlternate
    \/ Finish
    \/ RxivBiorxivPmid
    \/ RxivMedrxivPmid
    \/ RxivGenericPmid
    \/ RxivSuccessCheck
    \/ RxivDetailsBio
    \/ RxivStatusCheck
    \/ RxivDetailsMed
    \/ RxivPublishedDoiPmid
    \/ RxivJatsFallback

Spec == Init /\ [][Next]_vars

----------------------------------------------------------------------------
(* The same batch given twice to an orchestrator, the services fixed *)

Sites ==
    {"s1.details", "s1.search", "s1.ann", "s2.details", "s2.search", "s2.ann",
     "s3.conv", "s3.ann", "s4.bio", "s4.med", "s5.conv", "s5.ann", "s6.jats",
     "s6.env", "j1.conv", "j1.ann", "j2.alt", "j2.ann"}

\* every service fails
AllErr == [s \in Sites |-> "err"]

\* what the services answer for one key
Scenarios ==
    { AllErr,
      \* annotated through the bioRxiv title search, or the ID converter
      [AllErr EXCEPT !["s1.details"] = "ok-unpublished", !["s1.search"] = "hit",
                     !["s1.ann"] = "doc", !["j1.conv"] = "pmid", !["j1.ann"] = "doc"],
      \* the bioRxiv details are an error page
      [AllErr EXCEPT !["s4.bio"] = "html", !["j1.conv"] = "pmid", !["j1.ann"] = "blank"],
      \* only the raw source is there
      [AllErr EXCEPT !["s4.bio"] = "ok-unpublished", !["s6.jats"] = "xml",
                     !["s6.env"] = "ok", !["j1.conv"] = "pmid", !["j1.ann"] = "empty",
                     !["j2.alt"] = "pmid", !["j2.ann"] = "doc"],
      \* a medRxiv preprint since published and annotated
      [AllErr EXCEPT !["s4.bio"] = "notfound", !["s4.med"] = "ok-published",
                     !["s5.conv"] = "pmid", !["s5.ann"] = "doc"],
      \* unknown to both preprint servers
      [AllErr EXCEPT !["s4.bio"] = "notfound", !["s4.med"] = "notfound",
                     !["j2.alt"] = "pmid", !["j2.ann"] = "empty"] }

InitPair ==
    /\ fn \in {"journal", "rxiv"}
    /\ isPmidDict \in BOOLEAN
    /\ (fn = "rxiv" => isPmidDict = FALSE)
    /\ \E o \in Perms(Keys) : Start(o)
    /\ oracle \in [Keys -> Scenarios]
    /\ run = 1
    /\ first = NoResult
    /\ Imported
    /\ file_name = << >>

\* the first call has ended; the caller keeps what it left and calls again
\* with the same keys in any insertion order, the services answering for at
\* least one key as before
Rerun ==
    /\ run = 1
    /\ pc \in {"returned", "raised"}
    /\ first' = [end |-> pc, dict |-> dict, unk_dict |-> unk_dict, oracle |-> oracle]
    /\ run' = 2
    /\ \E o \in Perms(Keys) :
         /\ order' = o
         /\ dict' = [k \in Keys |-> None]
    /\ \E orc \in [Keys -> Scenarios] :
         /\ \E k \in Keys : orc[k] = oracle[k]
         /\ oracle' = orc
    /\ idx' = 0
    /\ pc' = "loop"
    /\ unk_dict' = << >>
    /\ key' = << >>
    /\ bioc' = None
    /\ converted' = FALSE
    /\ biorxiv' = TRUE
    /\ details' = None
    /\ calls' = << >>
    /\ UNCHANGED <<fn, isPmidDict, limiter, file_name>>

NextPair ==
    \/ Next
    \/ Rerun

SpecPair == InitPair /\ [][NextPair]_vars

TypeOK == pc \in {"loop", "pop", "returned", "raised", "j_primary", "j_alt", "j_fin",
                  "r_s1", "r_s2", "r_s3", "r_chk", "r_det_bio", "r_status",
                  "r_det_med", "r_s5", "r_s6", "r_fin"}

----------------------------------------------------------------------------
(* Calls of the decorated functions *)

batch_but_names == <<fn, isPmidDict, order, idx, pc, dict, unk_dict, key,
                     bioc, converted, biorxiv, details, calls, oracle, run, first>>

batch == <<fn, isPmidDict, order, idx, pc, dict, unk_dict, key,
           bioc, converted, biorxiv, details, calls, oracle, run, first, file_name>>

InitLimiter ==
    /\ fn = "none"
    /\ isPmidDict = FALSE
    /\ Start(<< >>)
    /\ oracle = << >>
    /\ run = 1
    /\ first = NoResult
    /\ Imported
    /\ file_name = << >>

Top == stack[Len(stack)]
Pop == SubSeq(stack, 1, Len(stack) - 1)

\* the times of s that lie in the second ending at tick t
Recent(s, t) ==
    LET InWindow(x) == x > t - Period IN SelectSeq(s, InWindow)

\* time passes
Tick ==
    /\ now < MaxTime
    /\ now' = now + 1
    /\ sent' = [f \in Limited |-> Recent(sent[f], now + 1)]
    /\ UNCHANGED <<batch, last_reset, num_calls, stack, started, escaped>>

\* the wrapper of @limits(calls, period) for f at time clock: the counter it
\* leaves, and whether it raises RateLimitException(period_remaining)
limits(f, clock, reset, n) ==
    LET period_remaining == Period - (clock - reset)
        over == period_remaining <= 0
        m == (IF over THEN 0 ELSE n) + 1
    IN [ num_calls |-> m,
         last_reset |-> IF over THEN clock ELSE reset,
         raised |-> m > LimitCalls(f),
         period_remaining |-> period_remaining ]

\* a wrapper that lets the RateLimitException pass to the caller
sleep_and_retry_absent(period_remaining) == [caught |-> FALSE, sleep |-> 0]

\* the wrapper of @sleep_and_retry on a RateLimitException: it is caught, and
\* time.sleep(exception.period_remaining) comes before the next attempt
sleep_and_retry(period_remaining) == [caught |-> TRUE, sleep |-> period_remaining]

\* one attempt to run f at time clock, below the calls in progress under:
\* the body of f is entered, or the attempt raised and the wrapper sleeps, or
\* the exception leaves the wrappers
Attempt(f, clock, under) ==
    LET r == limits(f, clock, last_reset[f], num_calls[f])
        h == sleep_and_retry(r.period_remaining)
    IN /\ num_calls' = [num_calls EXCEPT ![f] = r.num_calls]
       /\ last_reset' = [last_reset EXCEPT ![f] = r.last_reset]
       /\ IF ~r.raised
          THEN /\ stack' = Append(under, [fn |-> f, at |-> "body", rem |-> 0])
               /\ sent' = [g \in Limited |->
                             IF g = f THEN Append(Recent(sent[g], clock), clock)
                             ELSE Recent(sent[g], clock)]
               /\ UNCHANGED escaped
          ELSE IF h.caught
          THEN /\ stack' = Append(under, [fn |-> f, at |-> "caught", rem |-> h.sleep])
               /\ sent' = [g \in Limited |-> Recent(sent[g], clock)]
               /\ UNCHANGED escaped
          ELSE /\ stack' = << >>
               /\ sent' = [g \in Limited |-> Recent(sent[g], clock)]
               /\ escaped' = TRUE

\* the caller calls a decorated function
CallStart ==
    /\ stack = << >>
    /\ ~escaped
    /\ started < MaxCalls
    /\ started' = started + 1
    /\ \E f \in Limited : Attempt(f, now, << >>)
    /\ UNCHANGED <<batch, now>>

\* time.sleep(period_remaining) returns; `while True` makes the next attempt
SleepAndRetry ==
    /\ stack # << >>
    /\ Top.at = "caught"
    /\ now' = now + Top.rem
    /\ Attempt(Top.fn, now + Top.rem, Pop)
    /\ UNCHANGED <<batch, started>>

\* the body of get_rxiv_pmid calls get_rxiv_details (line 124)
NestedCall ==
    /\ stack # << >>
    /\ Top.at = "body"
    /\ Top.fn = "get_rxiv_pmid"
    /\ Attempt("get_rxiv_details", now, Append(Pop, [Top EXCEPT !.at = "nested"]))
    /\ UNCHANGED <<batch, now, started>>

\* the body ends (it returns, or raises an error of its own)
BodyEnd ==
    /\ stack # << >>
    /\ \/ Top.at = "body" /\ Top.fn # "get_rxiv_pmid"
       \/ Top.at = "nested"
    /\ stack' = Pop
    /\ UNCHANGED <<batch, now, last_reset, num_calls, sent, started, escaped>>

\* get_journal_publication_bioc, lines 227-238: the primary attempt ends
\* without an annotation (get_pmid raised, or with isPmidDict the fetch did),
\* and the orchestrator calls doi2pmid(key); doi2pmid is imported from
\* metapub.convert (line 6) and called as it is, under no decorator
AlternateCall ==
    /\ Len(stack) = 1
    /\ Top.at = "body"
    /\ Top.fn \in {"get_pmid", "get_pubtator_bioc_json"}
    /\ stack' = <<[fn |-> "doi2pmid", at |-> "body", rem |-> 0]>>
    /\ UNCHANGED <<batch, now, last_reset, num_calls, sent, started, escaped>>

NextLimiter ==
    \/ Tick
    \/ CallStart
    \/ SleepAndRetry
    \/ NestedCall
    \/ AlternateCall
    \/ BodyEnd

\* the calling thread keeps running, and a sleep returns
SpecLimiter ==
    /\ InitLimiter
    /\ [][NextLimiter]_vars
    /\ WF_vars(SleepAndRetry)
    /\ WF_vars(NestedCall)
    /\ WF_vars(BodyEnd)

----------------------------------------------------------------------------
(* File names of the fallback artifacts *)

\* a DOI: registrant, "/", and a suffix of 1..MaxSuffixLen tokens; as a link
\* it carries the resolver host in front
SuffixTokens == {"a", ".", "/", "-", "("}

Suffixes == UNION {[1..n -> SuffixTokens] : n \in 1..MaxSuffixLen}

BareDois == {<<r, "/">> \o x : r \in {"10.1101", "10.1"}, x \in Suffixes}

Dois == BareDois \cup {<<"https://", "doi.org/">> \o d : d \in BareDois}

InitFileName ==
    /\ fn = "none"
    /\ isPmidDict = FALSE
    /\ order = << >>
    /\ idx = 0
    /\ pc = "loop"
    /\ dict = << >>
    /\ unk_dict = << >>
    /\ key \in Dois
    /\ bioc = None
    /\ converted = FALSE
    /\ biorxiv = TRUE
    /\ details = None
    /\ calls = << >>
    /\ oracle = << >>
    /\ run = 1
    /\ first = NoResult
    /\ Imported
    /\ file_name = << >>

\* file_name = get_doi_file_name(key)
DeriveFileName ==
    /\ file_name = << >>
    /\ file_name' = <<get_doi_file_name(key)>>
    /\ UNCHANGED <<batch_but_names, limiter>>

\* lines 372 and 377 of get_rxiv_bioc:
\* file_name = key.split('doi.org/')[-1]; file_name = get_doi_file_name(file_name)
FallbackFileName ==
    /\ file_name = << >>
    /\ file_name' = <<get_doi_file_name(AfterLast(key, "doi.org/"))>>
    /\ UNCHANGED <<batch_but_names, limiter>>

\* the derived name is given to get_doi_file_name again
DeriveAgain ==
    /\ Len(file_name) = 1
    /\ file_name' = Append(file_name, get_doi_file_name(file_name[1]))
    /\ UNCHANGED <<batch_but_names, limiter>>

NextFileName ==
    \/ DeriveFileName
    \/ FallbackFileName
    \/ DeriveAgain

SpecFileName == InitFileName /\ [][NextFileName]_vars

----------------------------------------------------------------------------
(* Properties of the batch call *)

Batch == {order[i] : i \in 1..Len(order)}

\* the loop body of the current key has ended
KeyDone == idx > 0 /\ pc \in {"loop", "pop", "returned"}

\* k will be (or is) a key of the first returned map only
Resolved(k) == k \in DOMAIN dict /\ k \notin DOMAIN unk_dict

\* the annotation fetches among the current key's calls
Fetches == {i \in 1..Len(calls) : calls[i].fn = "get_pubtator_bioc_json"}

\* the fetches that returned a non-empty str
DocFetches == {i \in Fetches : calls[i].out = "str"}

Min(S) == CHOOSE i \in S : \A j \in S : i <= j

\* C1: after either orchestrator returns, every key of the batch is a key of
\* exactly one of the two returned maps.
C1_Partition ==
    pc = "returned" =>
        \A k \in Batch :
            \/ (k \in DOMAIN dict /\ k \notin DOMAIN unk_dict)
            \/ (k \notin DOMAIN dict /\ k \in DOMAIN unk_dict)

C1_Witness ==
    /\ pc = "returned"
    /\ DOMAIN dict # {}
    /\ DOMAIN unk_dict # {}

\* C2: once started, neither orchestrator raises, whatever the services
\* return or throw.
C2_NeverRaises == pc # "raised"

\* a non-empty annotation document
IsDocument(v) == v # None /\ v # Blank /\ v # EmptyColl /\ v # Converting

\* C3: after get_rxiv_bioc returns, every key is in exactly one terminal
\* state: resolved with a non-empty document, resolved with "converting", or
\* unresolved; none is left in resolved with an absent or empty value.
C3_TerminalStates ==
    (fn = "rxiv" /\ pc = "returned") =>
        \A k \in Batch :
            \/ k \in DOMAIN dict /\ k \notin DOMAIN unk_dict /\ IsDocument(dict[k])
            \/ k \in DOMAIN dict /\ k \notin DOMAIN unk_dict /\ dict[k] = Converting
            \/ k \notin DOMAIN dict /\ k \in DOMAIN unk_dict

\* the current key's calls other than annotation fetches, each as
\* <<function, flag>>; get_pmid is flagged by what it was called on
IsResolutionCall(c) == c.fn # "get_pubtator_bioc_json"

Step(c) ==
    IF c.fn = "get_pmid"
    THEN <<c.fn, IF c.arg = Str(key) THEN "key" ELSE "published">>
    ELSE <<c.fn, c.flag>>

Attempts ==
    LET t == SelectSeq(calls, IsResolutionCall)
    IN [i \in 1..Len(t) |-> Step(t[i])]

CascadeHead ==
    << <<"get_rxiv_pmid", "bio">>, <<"get_rxiv_pmid", "med">>, <<"get_pmid", "key">>,
       <<"get_rxiv_details", "bio">> >>

CascadeTail ==
    << <<"get_rxiv_published_doi", "-">>, <<"get_pmid", "published">>,
       <<"get_rxiv_jats_xml", "-">>, <<"convert_jatsxml_to_html", "-">> >>

\* strategies 1-5 failed for the current key: no annotation fetch returned a str
NoFetchSucceeded == \A i \in Fetches : calls[i].out \in {"raise", "None"}

FallbackPending ==
    /\ fn = "rxiv"
    /\ KeyDone
    /\ Resolved(key)
    /\ dict[key] = Converting

C5_FirstDocTerminal ==
    fn = "rxiv" =>
        \A i \in DocFetches :
            /\ i = Len(calls)
            /\ bioc = Str(DocOf(calls[i].arg))
            /\ KeyDone => (Resolved(key) /\ dict[key] = Str(DocOf(calls[i].arg)))

C5_Witness ==
    /\ fn = "rxiv"
    /\ pc = "returned"
    /\ \E i \in DocFetches : i > 2 /\ dict[key] = Str(DocOf(calls[i].arg))

\* C6: in get_journal_publication_bioc a key is in resolved iff the primary
\* or else the alternate attempt returned a non-empty annotation, with the
\* first such annotation as its value; otherwise it is in unresolved with
\* value None.
C6_JournalOutcome ==
    (fn = "journal" /\ KeyDone) =>
        IF DocFetches # {}
        THEN /\ Resolved(key)
             /\ dict[key] = Str(DocOf(calls[Min(DocFetches)].arg))
        ELSE /\ key \in DOMAIN unk_dict
             /\ unk_dict[key] = None
             /\ pc = "returned" => key \notin DOMAIN dict

\* the call that follows the annotation fetch calls[i] opens the strategy
\* after the one the fetch belongs to
RoutesOn(i) ==
    LET prev == IF i = 1 THEN <<"start", "-">> ELSE Step(calls[i - 1])
        next == Step(calls[i + 1])
    IN CASE prev = <<"get_rxiv_pmid", "bio">> -> next = <<"get_rxiv_pmid", "med">>
         [] prev = <<"get_rxiv_pmid", "med">> -> next = <<"get_pmid", "key">>
         [] prev = <<"get_pmid", "key">> ->
                next = IF fn = "rxiv" THEN <<"get_rxiv_details", "bio">>
                       ELSE <<"doi2pmid", "-">>
         [] prev = <<"get_pmid", "published">> -> next = <<"get_rxiv_jats_xml", "-">>
         [] prev = <<"start", "-">> -> next = <<"doi2pmid", "-">>
         [] OTHER -> FALSE

\* the fetches the endpoint answered with the empty collection
EmptyFetches == {i \in Fetches : calls[i].flag = "empty"}

\* after an empty collection the next strategy is attempted; only the
\* alternate attempt of get_journal_publication_bioc has none, and its key
\* is unresolved
AbsentRoutes ==
    \A i \in EmptyFetches :
        /\ i < Len(calls) => RoutesOn(i)
        /\ (KeyDone /\ i = Len(calls)) =>
              /\ fn = "journal"
              /\ key \in DOMAIN unk_dict

\* C7: an annotation fetch answered with the empty collection returns None
\* and does not raise, and the orchestrator goes on as after an absent
\* annotation: bioc and converted are as before the fetch, and the next
\* strategy is attempted.
C7_EmptyIsAbsent ==
    [][ /\ \A i \in (Len(calls) + 1)..Len(calls') :
              (calls'[i].fn = "get_pubtator_bioc_json" /\ calls'[i].flag = "empty") =>
                  /\ calls'[i].out = "None"
                  /\ i = Len(calls')
                  /\ bioc' = bioc
                  /\ converted' = converted
                  /\ pc' # "raised"
        /\ AbsentRoutes' ]_vars

C7_Witness ==
    /\ fn = "rxiv"
    /\ KeyDone
    /\ \E i \in EmptyFetches : i < Len(calls) /\ calls[i + 1].fn = "get_rxiv_jats_xml"

\* what a call that ended at position end, leaving d and u, did for the key k
KeyOutcome(k, end, d, u) ==
    [ returned |-> end = "returned",
      resolved |-> k \in DOMAIN d /\ k \notin DOMAIN u,
      value |-> IF k \in DOMAIN d THEN d[k] ELSE None,
      unresolved |-> k \in DOMAIN u ]

\* C10: the outcome of a key depends only on what the services answer for
\* that key: two calls on the same batch, in any two processing orders and
\* with any answers for the other keys, end alike for it.
C10_Independent ==
    (run = 2 /\ pc \in {"returned", "raised"}) =>
        \A k \in Keys :
            oracle[k] = first.oracle[k] =>
                KeyOutcome(k, pc, dict, unk_dict) =
                    KeyOutcome(k, first.end, first.dict, first.unk_dict)

\* the current key's calls of the raw-source fetch, and whether the fetch and
\* the conversion after it both ended well
FallbackCalls == {i \in 1..Len(calls) : calls[i].fn = "get_rxiv_jats_xml"}

FallbackSucceeded ==
    /\ \E i \in FallbackCalls : calls[i].out = "str"
    /\ \E i \in 1..Len(calls) :
          calls[i].fn = "convert_jatsxml_to_html" /\ calls[i].out = "None"

\* C11: in get_rxiv_bioc a key for which strategy 6 was reached ends in
\* resolved with the marker "converting" if the raw-source fetch and the
\* conversion both succeeded, and in unresolved if either failed.
C11_FallbackOutcome ==
    (fn = "rxiv" /\ KeyDone /\ FallbackCalls # {}) =>
        IF FallbackSucceeded
        THEN /\ Resolved(key)
             /\ dict[key] = Converting
        ELSE /\ key \in DOMAIN unk_dict
             /\ unk_dict[key] = None
             /\ pc = "returned" => key \notin DOMAIN dict

C11_Witness ==
    /\ fn = "rxiv"
    /\ pc = "returned"
    /\ key \in DOMAIN unk_dict
    /\ \E i \in FallbackCalls : calls[i].out = "str"
    /\ \E i \in 1..Len(calls) :
          calls[i].fn = "convert_jatsxml_to_html" /\ calls[i].out = "raise"

\* the loop is between two keys, or past the last one
KeyBoundary == idx > 0 /\ pc = "loop"

\* C13: at every key boundary of the loop, in both orchestrators, no key is
\* in both the batch map and the unresolved map.
C13_ExclusiveAtKeyBoundary ==
    KeyBoundary => (DOMAIN dict) \cap (DOMAIN unk_dict) = {}

\* C13 as amended: no key is in both maps when the orchestrator returns; at
\* a key boundary every key already in the unresolved map is still a key of
\* the batch map, with its initial value None.
C13_ExclusiveAtReturn ==
    /\ pc = "returned" => (DOMAIN dict) \cap (DOMAIN unk_dict) = {}
    /\ KeyBoundary => \A k \in DOMAIN unk_dict : k \in DOMAIN dict /\ dict[k] = None

C13_Witness ==
    /\ KeyBoundary
    /\ idx < Len(order)
    /\ key \in DOMAIN unk_dict
    /\ key \in DOMAIN dict

\* the annotation fetch of the primary attempt: the one no doi2pmid precedes
PrimaryFetches == {i \in Fetches : \A j \in 1..i : calls[j].fn # "doi2pmid"}

AlternateAttempted == \E i \in 1..Len(calls) : calls[i].fn = "doi2pmid"

\* both attempts of get_journal_publication_bioc are over for the current key
AttemptsOver == fn = "journal" /\ idx > 0 /\ pc \in {"j_fin", "loop", "pop", "returned"}

\* C15: in get_journal_publication_bioc the alternate strategy (doi2pmid on
\* the key, then the annotation fetch) is attempted for a key exactly when
\* the primary attempt raised or returned an absent or empty annotation, with
\* or without isPmidDict; never after a primary attempt that returned a
\* non-empty annotation.
C15_AlternateWhenNeeded ==
    AttemptsOver =>
        (AlternateAttempted <=> ~(\E i \in PrimaryFetches : calls[i].out = "str"))

\* the current key's calls of get_rxiv_details made by step 4 as server
DetailCalls(c, server) ==
    {i \in 1..Len(c) : c[i].fn = "get_rxiv_details" /\ c[i].flag = server}

\* d is a record with a status
IsRecord(d) == HasText(d) /\ d.text = "json" /\ d.messages # << >>

\* the bioRxiv fetch of step 4 failed, or returned a record whose status is
\* not "ok" (details still holds what that fetch returned)
MedrxivNeeded ==
    \/ \E i \in DetailCalls(calls, "bio") : calls[i].out = "raise"
    \/ IsRecord(details) /\ details.messages[1] # "ok"

\* C16: in step 4 of get_rxiv_bioc the details are fetched as medRxiv iff the
\* bioRxiv fetch failed or returned a record whose status is not "ok"; the
\* later strategies get the medRxiv record in that case, the bioRxiv record
\* otherwise, and do not change it.
C16_MedrxivRecord ==
    [][ /\ pc = "r_det_med" =>
              /\ DetailCalls(calls', "med") # {} <=> MedrxivNeeded
              /\ pc' = "r_s5" =>
                    IF MedrxivNeeded
                    THEN details'.server = "medrxiv"
                    ELSE details' = details /\ details.server = "biorxiv"
        /\ pc \in {"r_s5", "r_s6"} => details' = details ]_vars

C16_Witness ==
    /\ pc = "r_s6"
    /\ details # None
    /\ details.server = "medrxiv"
    /\ \E i \in DetailCalls(calls, "bio") : calls[i].out = "ret"

\* the entry of k in the map d: absent, or its value
Entry(d, k) == IF k \in DOMAIN d THEN <<d[k]>> ELSE << >>

\* the for loop over the keys is running
InLoop == pc \notin {"pop", "returned", "raised"}

\* C17: while a key is processed, in both orchestrators, the entries of every
\* other key in the batch map and in the unresolved map stay as they are;
\* so wherever the loop is interrupted, a key not yet processed still maps
\* to its initial None and is in no unresolved entry.
C17_Frame ==
    /\ [][ InLoop =>
              \A k \in Batch \ {key'} :
                  /\ Entry(dict', k) = Entry(dict, k)
                  /\ Entry(unk_dict', k) = Entry(unk_dict, k) ]_vars
    /\ [](InLoop =>
              \A i \in (idx + 1)..Len(order) :
                  /\ Entry(dict, order[i]) = <<None>>
                  /\ Entry(unk_dict, order[i]) = << >>)

C17_Witness ==
    /\ idx = 2
    /\ pc \in {"r_s5", "j_alt"}
    /\ calls # << >>
    /\ IsDocument(dict[order[1]])
    /\ dict[key] = None

\* the place of a call in the cascade of get_rxiv_bioc: ten times the number
\* of its strategy, plus its place inside the strategy
CascadePlace(c) ==
    CASE c.fn = "get_rxiv_pmid" -> IF c.flag = "bio" THEN 10 ELSE 20
      [] c.fn = "get_pmid" -> IF c.arg = Str(key) THEN 30 ELSE 51
      [] c.fn = "get_rxiv_details" -> IF c.flag = "bio" THEN 40 ELSE 41
      [] c.fn = "get_rxiv_published_doi" -> 50
      [] c.fn = "get_rxiv_jats_xml" -> 60
      [] c.fn = "convert_jatsxml_to_html" -> 61
      [] OTHER -> 0

Conversions == {i \in 1..Len(calls) : calls[i].fn = "convert_jatsxml_to_html"}

\* what is left to do: the keys still to take, then the steps of the current key
PcPlace ==
    CASE pc = "r_s1" -> 14 [] pc = "r_s2" -> 13 [] pc = "r_s3" -> 12
      [] pc = "r_chk" -> 11 [] pc = "r_det_bio" -> 10 [] pc = "r_status" -> 9
      [] pc = "r_det_med" -> 8 [] pc = "r_s5" -> 7 [] pc = "r_s6" -> 6
      [] pc = "j_primary" -> 14 [] pc = "j_alt" -> 13
      [] pc \in {"r_fin", "j_fin"} -> 5
      [] pc = "loop" -> 2 [] pc = "pop" -> 1
      [] OTHER -> 0

Remaining == (Len(order) - idx) * 20 + PcPlace

\* C18: in get_rxiv_bioc the calls made for a key go through the cascade in
\* one direction, each strategy at most once (the published-DOI strategy
\* after strategies 1-4, without entering them again); a key has at most 4
\* annotation fetches and one conversion; every step leaves less to do, so
\* the call ends after finitely many service calls.
C18_NoLoopBack ==
    /\ [](fn = "rxiv" =>
            LET a == SelectSeq(calls, IsResolutionCall)
                places == [i \in 1..Len(a) |-> CascadePlace(a[i])]
            IN /\ \A i \in 1..Len(a) :
                     /\ places[i] > 0
                     /\ i > 1 => places[i - 1] < places[i]
               /\ Cardinality(Fetches) <= 4
               /\ Cardinality(Conversions) <= 1)
    /\ [][fn = "rxiv" => Remaining' < Remaining]_vars

C18_Witness ==
    /\ fn = "rxiv"
    /\ pc = "returned"
    /\ Cardinality(Fetches) = 4
    /\ Cardinality(Conversions) = 1
    /\ \E i \in DetailCalls(calls, "med") : calls[i].out = "ret"

\* d without the resolver host https://doi.org/ in front, if it has one
WithoutResolverHost(d) ==
    IF Len(d) >= 2 /\ d[1] = "https://" /\ d[2] = "doi.org/"
    THEN SubSeq(d, 3, Len(d))
    ELSE d

\* the resolution and detail backends
DoiBackends == {"get_pmid", "get_rxiv_details", "get_rxiv_pmid", "doi2pmid"}

HasResolverHost(d) == Len(d) >= 2 /\ d[1] = "https://" /\ d[2] = "doi.org/"

\* C19: for a key that carries the resolver host https://doi.org/, every
\* request to a resolution or detail backend (get_pmid, get_rxiv_details,
\* get_rxiv_pmid, doi2pmid) is built from the DOI without the host, and
\* normalizing the normalized DOI again leaves it as it is.
C19_Normalized ==
    \A i \in 1..Len(calls) :
        (calls[i].fn \in DoiBackends /\ HasResolverHost(calls[i].arg.s)) =>
            /\ calls[i].req = WithoutResolverHost(calls[i].arg.s)
            /\ DoiPart(Str(calls[i].req)) = calls[i].req

----------------------------------------------------------------------------
(* Properties of the file names *)

SlashesToUnderscores(d) == [i \in 1..Len(d) |-> IF d[i] = "/" THEN "_" ELSE d[i]]

\* C12: the file name derived from a DOI is the DOI without the resolver
\* host https://doi.org/, with every "/" replaced by "_" and every "." kept;
\* deriving a name from a derived name gives the same name.
C12_FileName ==
    /\ Len(file_name) >= 1 =>
          file_name[1] = SlashesToUnderscores(WithoutResolverHost(key))
    /\ Len(file_name) = 2 => file_name[2] = file_name[1]

C12_Witness ==
    /\ key[1] = "https://"
    /\ Len(file_name) = 2
    /\ \E i \in 1..Len(file_name[2]) : file_name[2][i] = "."
    /\ \E i \in 2..Len(file_name[2]) : file_name[2][i] = "_"

----------------------------------------------------------------------------
(* Properties of the call budgets *)

\* C8: for a function limited to 3 calls per second, no more than 3 runs of
\* its body fall in any window of one second, whenever the calls arrive.
C8_SlidingWindow ==
    \A f \in Limited :
        LimitCalls(f) = 3 => Len(sent[f]) <= 3

Waiting(f) == \E i \in 1..Len(stack) : stack[i].fn = f /\ stack[i].at = "caught"
Running(f) == \E i \in 1..Len(stack) : stack[i].fn = f /\ stack[i].at \in {"body", "nested"}

\* C9: the budget only delays: every call of a decorated function, the
\* get_rxiv_details call inside get_rxiv_pmid included, gets to run the
\* function's body, and no RateLimitException reaches the caller.
C9_OnlyDelays ==
    /\ [](~escaped)
    /\ \A f \in Limited : Waiting(f) ~> Running(f)

C9_Witness ==
    /\ Len(stack) = 2
    /\ stack[1].fn = "get_rxiv_pmid"
    /\ stack[2].fn = "get_rxiv_details"
    /\ stack[2].at = "body"
    /\ num_calls["get_rxiv_details"] = 1
    /\ now > MaxTime

\* the functions that resolve an identifier to a PMID
Resolvers == {"get_pmid", "doi2pmid", "get_rxiv_pmid"}

\* C14: every identifier-resolution call (get_pmid, doi2pmid, get_rxiv_pmid)
\* passes through a call budget: whenever the body of one of them runs, the
\* function has a counter, the run was counted, and the count of the period
\* is within the budget.
C14_ResolversBudgeted ==
    \A i \in 1..Len(stack) :
        (stack[i].fn \in Resolvers /\ stack[i].at \in {"body", "nested"}) =>
            /\ stack[i].fn \in Limited
            /\ num_calls[stack[i].fn] \in 1..LimitCalls(stack[i].fn)

====
